---- MODULE Spec2Model ----
(***************************************************************************)
(* The ID3 splitting engine of id3/splitter.py: Splitter.calc chooses the  *)
(* best feature (and pivot) for a subset of examples, Splitter.split       *)
(* partitions the subset into branch records.                              *)
(*                                                                         *)
(* Arrays are sequences: Python position i is position i + 1 here; the     *)
(* row, feature, class and category numbers stored in them are 0-based as  *)
(* in the program.                                                         *)
(*                                                                         *)
(* Floating point.  A finite float64 is a fixed-point integer in units of  *)
(* 1 / (Unit * LogScale); +inf, -inf, nan and -0.0 are separate kinds.     *)
(* log2 is the table Log2Fix.  Unit is a common multiple of every array    *)
(* length the model can reach, so p = count / n and info * (1 / n) are     *)
(* exact.  The quotient info / gain_ratio (gain-ratio mode only) is kept   *)
(* in units of 1 / RatioScale, rounded down.                               *)
(***************************************************************************)
EXTENDS Integers, Sequences, FiniteSets, TLC

\* ------------------------------------------------------- size of the dataset
\* Number of rows of X and y.
NumExamples == 3

Rows == 0 .. (NumExamples - 1)
Features == {0, 1}
\* The values a numerical column takes: three in column 0 (two boundaries for
\* the pivot search), two in column 1.
Values(ft) == IF ft = 0 THEN {0, 1, 2} ELSE {0, 1}
Classes == {0, 1}

\* ------------------------------------------------- SplitRecord / CalcRecord
LESS == 0
GREATER == 1
NUM == 0
NOM == 1

\* Python's None in an integer field.
None == -1

\* ---------------------------------------------------------------- floats
Unit == 60
LogScale == 10000
RatioScale == 2048

Fin(v) == [k |-> "fin", v |-> v]
PosInf == [k |-> "inf", v |-> 0]
NegInf == [k |-> "ninf", v |-> 0]
NaN == [k |-> "nan", v |-> 0]
NegZero == [k |-> "nzero", v |-> 0]

\* a > b on float64: false as soon as one side is nan; -0.0 equals 0.0.
FGt(a, b) ==
    CASE a.k = "nan" \/ b.k = "nan" -> FALSE
      [] a.k = "inf" -> b.k # "inf"
      [] a.k = "ninf" -> FALSE
      [] b.k = "inf" -> FALSE
      [] b.k = "ninf" -> TRUE
      [] OTHER -> a.v > b.v

\* a < b on float64.
FLt(a, b) == FGt(b, a)

\* np.true_divide(a, b) for a >= 0 or +inf, and b one of: finite, -0.0, nan.
FDiv(a, b) ==
    CASE a.k = "nan" \/ b.k = "nan" -> NaN
      [] b.k = "nzero" -> IF a.k = "inf" \/ a.v > 0 THEN NegInf ELSE NaN
      [] b.k = "fin" /\ b.v = 0 -> IF a.k = "inf" \/ a.v > 0 THEN PosInf ELSE NaN
      [] a.k = "inf" -> PosInf
      [] OTHER -> Fin((a.v * RatioScale) \div b.v)

\* x * np.true_divide(1, n) for n >= 1.
FDivN(a, n) == IF a.k = "fin" THEN Fin(a.v \div n) ELSE a

\* np.log2(k) * LogScale for the integers the model reaches.
Log2Fix(k) ==
    CASE k = 1 -> 0
      [] k = 2 -> 10000
      [] k = 3 -> 15850
      [] k = 4 -> 20000
      [] k = 5 -> 23219
      [] k = 6 -> 25850

\* ------------------------------------------------------------ utils.unique
RECURSIVE SortedSeq(_)
SortedSeq(S) ==
    IF S = {} THEN <<>>
    ELSE LET m == CHOOSE a \in S : \A b \in S : a <= b
         IN  <<m>> \o SortedSeq(S \ {m})

Count(s, v) == Cardinality({j \in 1 .. Len(s) : s[j] = v})

\* unique(arr): the distinct values ascending, and how often each occurs.
Unique(s) ==
    LET items == SortedSeq({s[j] : j \in 1 .. Len(s)})
    IN  [items |-> items,
         count |-> [j \in 1 .. Len(items) |-> Count(s, items[j])]]

RECURSIVE Sum(_)
Sum(s) == IF s = <<>> THEN 0 ELSE Head(s) + Sum(Tail(s))

\* ------------------------------------------------------------ the dataset
VARIABLES X, y, is_numerical, gain_ratio,
          examples_idx, features_idx,
          calc_record, calc_status,
          prev_record, prev_status,
          split_records, pc

vars == <<X, y, is_numerical, gain_ratio, examples_idx, features_idx,
          calc_record, calc_status, prev_record, prev_status,
          split_records, pc>>

\* encoders[ft].encoded_classes_ and encoders[ft].classes_ of a nominal
\* feature: the dense codes 0, 1 in order, and their labels.
encoders ==
    [ft \in Features |->
        [encoded_classes_ |-> <<0, 1>>, classes_ |-> <<"a", "b">>]]

\* The values a column can hold: any value if numerical, else a known code.
ColumnValues(numerical, ft) ==
    IF numerical[ft] THEN Values(ft)
    ELSE {encoders[ft].encoded_classes_[j] :
             j \in 1 .. Len(encoders[ft].encoded_classes_)}

\* What np.empty(2) may hold: zeroed memory, or the counts a freed array left.
Uninit == {<<0, 0>>, <<1, 2>>}

\* ------------------------------------------------------------- CalcRecord
NoFloat == [k |-> "none", v |-> 0]

CalcRecord(split_type, info, pivot, attribute_counts) ==
    [split_type |-> split_type, info |-> info, feature_idx |-> None,
     entropy |-> NoFloat, pivot |-> pivot, class_counts |-> <<>>,
     attribute_counts |-> attribute_counts]

\* calc_record = None
NoRecord ==
    [split_type |-> None, info |-> NoFloat, feature_idx |-> None,
     entropy |-> NoFloat, pivot |-> None, class_counts |-> <<>>,
     attribute_counts |-> <<>>]

SplitRecord(bag, value_encoded, value_decoded) ==
    [bag |-> bag, value_encoded |-> value_encoded,
     value_decoded |-> value_decoded, size |-> Len(bag)]

\* split_records[i] = None
NoSplitRecord ==
    [bag |-> <<>>, value_encoded |-> None, value_decoded |-> "None", size |-> None]

\* --------------------------------------------------------------- _entropy
\* sum(p * log2(1 / p)) with p = count / n, in fixed point.
PLogTerms(count, n) ==
    [j \in 1 .. Len(count) |->
        (Unit \div n) * count[j] * (Log2Fix(n) - Log2Fix(count[j]))]

_entropy(labels) ==
    LET n == Len(labels)
    IN  IF n <= 0 THEN 0 ELSE Sum(PLogTerms(Unique(labels).count, n))

\* _entropy(y, True): None when n <= 0 (a bare 0 is returned, which the caller
\* cannot unpack), else the entropy and the (class, count) rows.
_entropy_class_counts(labels) ==
    LET u == Unique(labels)
    IN  [res |-> _entropy(labels),
         class_counts |-> [j \in 1 .. Len(u.items) |-> <<u.items[j], u.count[j]>>]]

\* y[x == value]
MaskEq(labels, x, value) ==
    LET RECURSIVE pick(_)
        pick(j) == IF j > Len(x) THEN <<>>
                   ELSE (IF x[j] = value THEN <<labels[j]>> ELSE <<>>) \o pick(j + 1)
    IN  pick(1)

\* ---------------------------------------------------------- _info_nominal
_info_nominal(x, labels) ==
    LET n == Len(x)
        u == Unique(x)
        info == Sum([j \in 1 .. Len(u.items) |->
                        u.count[j] * _entropy(MaskEq(labels, x, u.items[j]))])
    IN  CalcRecord(NOM, FDivN(Fin(info), n), None, u.count)

\* -------------------------------------------------------- _info_numerical
\* The results np.argsort(x, kind='quicksort') may give: x in ascending
\* order; quicksort does not fix the order among equal values, which come
\* either all in index order or all in reverse index order here.
ArgSorts(x) ==
    LET n == Len(x)
        before(k) == Cardinality({i \in 1 .. n : x[i] < x[k] \/ (x[i] = x[k] /\ i < k)})
        after(k) == Cardinality({i \in 1 .. n : x[i] < x[k] \/ (x[i] = x[k] /\ i > k)})
    IN  {[a \in 1 .. n |-> CHOOSE k \in 1 .. n : before(k) = a - 1],
         [a \in 1 .. n |-> CHOOSE k \in 1 .. n : after(k) = a - 1]}

Take(a, idx) == [j \in 1 .. Len(idx) |-> a[idx[j]]]

\* Mutant: "<=" for "<", so the last of several minimal boundaries is kept.
NumericalStepLastMinimum(acc, i, n, sorted_x, sorted_y) ==
    IF sorted_x[i] # sorted_x[i + 1]
    THEN LET tmp_info == Fin(i * _entropy(SubSeq(sorted_y, 1, i))
                             + (n - i) * _entropy(SubSeq(sorted_y, i + 1, n)))
         IN  IF ~FGt(tmp_info, acc.min_info)
             THEN [min_info |-> tmp_info,
                   min_info_pivot |-> sorted_x[i],
                   min_attribute_counts |-> <<n - i, i>>]
             ELSE acc
    ELSE acc

\* One pass of "for i in range(1, n)"; acc holds min_info, min_info_pivot
\* and min_attribute_counts.
NumericalStep(acc, i, n, sorted_x, sorted_y) ==
    IF sorted_x[i] # sorted_x[i + 1]
    THEN LET tmp_info == Fin(i * _entropy(SubSeq(sorted_y, 1, i))
                             + (n - i) * _entropy(SubSeq(sorted_y, i + 1, n)))
         IN  IF FLt(tmp_info, acc.min_info)
             THEN [min_info |-> tmp_info,
                   min_info_pivot |-> sorted_x[i],
                   min_attribute_counts |-> <<n - i, i>>]
             ELSE acc
    ELSE acc

RECURSIVE NumericalLoop(_, _, _, _, _)
NumericalLoop(acc, i, n, sorted_x, sorted_y) ==
    IF i >= n THEN acc
    ELSE NumericalLoop(NumericalStep(acc, i, n, sorted_x, sorted_y),
                       i + 1, n, sorted_x, sorted_y)

\* sorted_idx is the argsort result, empty2 the content of np.empty(2).
_info_numerical(x, labels, sorted_idx, empty2) ==
    LET n == Len(x)
        sorted_y == Take(labels, sorted_idx)
        sorted_x == Take(x, sorted_idx)
        acc == NumericalLoop([min_info |-> PosInf, min_info_pivot |-> 0,
                              min_attribute_counts |-> empty2],
                             1, n, sorted_x, sorted_y)
    IN  CalcRecord(NUM, FDivN(acc.min_info, n), acc.min_info_pivot,
                   acc.min_attribute_counts)

\* Column ft of X[np.ix_(examples_idx)], and y[examples_idx].
Column(examples, ft) == [j \in 1 .. Len(examples) |-> X[examples[j]][ft]]
Labels(examples) == [j \in 1 .. Len(examples) |-> y[examples[j]]]

\* ------------------------------------------- _split_nominal / _split_numerical
\* examples_idx[X_[:, ft_idx] == val]; row j of X_ is row examples_idx[j] of X.
BagEq(examples, ft_idx, val) ==
    LET keep(r) == X[r][ft_idx] = val
    IN  SelectSeq(examples, keep)

\* examples_idx[X_[:, idx] <= pivot]
BagLessEq(examples, idx, pivot) ==
    LET keep(r) == X[r][idx] <= pivot
    IN  SelectSeq(examples, keep)

\* Mutant: ">=" for ">", so the rows at the pivot land in both bags.
BagGreaterOrEqual(examples, idx, pivot) ==
    LET keep(r) == X[r][idx] >= pivot
    IN  SelectSeq(examples, keep)

\* examples_idx[X_[:, idx] > pivot]
BagGreater(examples, idx, pivot) ==
    LET keep(r) == X[r][idx] > pivot
    IN  SelectSeq(examples, keep)

\* Mutant: one branch per code that occurs in the subset, instead of one per
\* code the encoder knows.
_split_nominal_present(examples, record) ==
    LET ft_idx == record.feature_idx
        present == Unique(Column(examples, ft_idx)).items
        classes == encoders[ft_idx].classes_
    IN  [slot \in 1 .. Len(present) |->
            SplitRecord(BagEq(examples, ft_idx, present[slot]),
                        present[slot], classes[present[slot] + 1])]

\* "for val, i in enumerate(values): split_records[i] = ...": val is the
\* position, i the code stored there; slot i is written by the last such val.
_split_nominal(examples, record) ==
    LET ft_idx == record.feature_idx
        values == encoders[ft_idx].encoded_classes_
        classes == encoders[ft_idx].classes_
        writers(i) == {val \in 0 .. Len(values) - 1 : values[val + 1] = i}
        last(i) == CHOOSE val \in writers(i) : \A w \in writers(i) : w <= val
    IN  [slot \in 1 .. Len(values) |->
            IF writers(slot - 1) = {} THEN NoSplitRecord
            ELSE SplitRecord(BagEq(examples, ft_idx, last(slot - 1)),
                             last(slot - 1), classes[slot])]

\* Mutant: the two comparisons exchanged.
_split_numerical_swapped(examples, record) ==
    LET idx == record.feature_idx
    IN  <<SplitRecord(BagGreater(examples, idx, record.pivot), LESS, "None"),
          SplitRecord(BagLessEq(examples, idx, record.pivot), GREATER, "None")>>

_split_numerical(examples, record) ==
    LET idx == record.feature_idx
    IN  <<SplitRecord(BagLessEq(examples, idx, record.pivot), LESS, "None"),
          SplitRecord(BagGreater(examples, idx, record.pivot), GREATER, "None")>>

\* ------------------------------------------------------------ _gain_ratio
\* -sum(s * log2(s)) with s = counts / sum(counts): nan when a count is 0
\* (0 / 0, or 0 * -inf), -0.0 when there is a single count.
_gain_ratio(record) ==
    LET counts == record.attribute_counts
        total == Sum(counts)
    IN  IF \E j \in 1 .. Len(counts) : counts[j] = 0 THEN NaN
        ELSE LET res == Sum(PLogTerms(counts, total))
             IN  IF res = 0 THEN NegZero ELSE Fin(res)

\* Mutant: ">=" for ">" when gain-ratio mode is off, so a tie replaces the
\* record kept so far.
_is_less_or_equal(calc_record1, calc_record2) ==
    IF calc_record1 = NoRecord THEN TRUE
    ELSE IF calc_record2 = NoRecord THEN FALSE
    ELSE IF gain_ratio
         THEN FGt(FDiv(calc_record1.info, _gain_ratio(calc_record1)),
                  FDiv(calc_record2.info, _gain_ratio(calc_record2)))
         ELSE ~FGt(calc_record2.info, calc_record1.info)

\* --------------------------------------------------------------- _is_less
_is_less(calc_record1, calc_record2) ==
    IF calc_record1 = NoRecord THEN TRUE
    ELSE IF calc_record2 = NoRecord THEN FALSE
    ELSE IF gain_ratio
         THEN FGt(FDiv(calc_record1.info, _gain_ratio(calc_record1)),
                  FDiv(calc_record2.info, _gain_ratio(calc_record2)))
         ELSE FGt(calc_record1.info, calc_record2.info)

\* ------------------------------------------------------------------- calc
\* What one pass of the loop may draw from outside the program: the argsort
\* result and the content of np.empty(2) (numerical features only).
NoChoice == [sorted_idx |-> <<>>, empty2 |-> <<>>]

\* np.empty(2) is read only if the loop never wrote to it, that is if the
\* column has no two different values; otherwise its content is immaterial.
Choice(examples, ft) ==
    LET x == Column(examples, ft)
    IN  IF is_numerical[ft]
        THEN {[sorted_idx |-> p, empty2 |-> g] :
                 p \in ArgSorts(x),
                 g \in IF \A a, b \in 1 .. Len(x) : x[a] = x[b]
                       THEN Uninit ELSE {<<0, 0>>}}
        ELSE {NoChoice}

RECURSIVE ChoiceSeqs(_, _)
ChoiceSeqs(examples, features) ==
    IF features = <<>> THEN {<<>>}
    ELSE {<<c>> \o rest : c \in Choice(examples, Head(features)),
                          rest \in ChoiceSeqs(examples, Tail(features))}

\* tmp_calc_record of pass idx.
Candidate(examples, features, ch, idx) ==
    IF is_numerical[features[idx]]
    THEN _info_numerical(Column(examples, features[idx]), Labels(examples),
                         ch[idx].sorted_idx, ch[idx].empty2)
    ELSE _info_nominal(Column(examples, features[idx]), Labels(examples))

RECURSIVE Candidates(_, _, _, _)
Candidates(examples, features, ch, idx) ==
    IF idx = 0 THEN <<>>
    ELSE Append(Candidates(examples, features, ch, idx - 1),
                Candidate(examples, features, ch, idx))

\* calc_record after passes 1 .. idx of "for idx, feature in enumerate(X_.T)".
RECURSIVE CalcLoop(_, _, _)
CalcLoop(tmp, features, idx) ==
    IF idx = 0 THEN NoRecord
    ELSE LET before == CalcLoop(tmp, features, idx - 1)
         IN  IF _is_less(before, tmp[idx])
             THEN [tmp[idx] EXCEPT !.feature_idx = features[idx]]
             ELSE before

\* Mutant: entropy and class_counts are set only on a record that exists, so
\* an empty features_idx returns None.
calc_returns_none(examples, features, ch) ==
    LET y_ == Labels(examples)
        tmp == Candidates(examples, features, ch, Len(features))
        best == CalcLoop(tmp, features, Len(features))
        ec == _entropy_class_counts(y_)
    IN  IF Len(y_) <= 0
        THEN [status |-> "TypeError", record |-> NoRecord]
        ELSE IF best = NoRecord
        THEN [status |-> "returned", record |-> NoRecord]
        ELSE [status |-> "returned",
              record |-> [best EXCEPT !.entropy = Fin(ec.res),
                                      !.class_counts = ec.class_counts]]

\* The outcome of calc(examples_idx, features_idx): the exception raised or
\* the record returned.
calc(examples, features, ch) ==
    LET y_ == Labels(examples)
        tmp == Candidates(examples, features, ch, Len(features))
        best == CalcLoop(tmp, features, Len(features))
        ec == _entropy_class_counts(y_)
    IN  IF Len(y_) <= 0
        THEN [status |-> "TypeError", record |-> NoRecord]
        ELSE IF best = NoRecord
        THEN [status |-> "AttributeError", record |-> NoRecord]
        ELSE [status |-> "returned",
              record |-> [best EXCEPT !.entropy = Fin(ec.res),
                                      !.class_counts = ec.class_counts]]

\* ------------------------------------------------------------------ split
split(examples, record) ==
    IF is_numerical[record.feature_idx]
    THEN _split_numerical(examples, record)
    ELSE _split_nominal(examples, record)

\* -------------------------------------------------------------- the driver
\* Index sequences the tree builder passes.  examples_idx is a tail k, k + 1,
\* ... of the rows (or empty): Init ranges over every dataset, so every
\* combination of rows is the tail of one of them.  features_idx holds
\* distinct features in any order.
ExampleSeqs ==
    {[j \in 1 .. (NumExamples - k) |-> k + j - 1] : k \in 0 .. NumExamples}

FeatureSeqs ==
    {<<>>} \cup {<<a>> : a \in Features}
           \cup {<<a, b>> : <<a, b>> \in {p \in Features \X Features : p[1] # p[2]}}

RowKey(Xv, yv, r) == <<yv[r], Xv[r][0], Xv[r][1]>>

KeyLeq(k1, k2) ==
    \/ k1[1] < k2[1]
    \/ k1[1] = k2[1] /\ k1[2] < k2[2]
    \/ k1[1] = k2[1] /\ k1[2] = k2[2] /\ k1[3] <= k2[3]

\* Splitter(X, y, is_numerical, encoders, gain_ratio); the rows of the dataset
\* are listed in ascending (label, feature 0, feature 1) order.
Init ==
    /\ is_numerical \in [Features -> BOOLEAN]
    /\ X \in [Rows -> [Features -> Values(0)]]
    /\ \A r \in Rows, ft \in Features : X[r][ft] \in ColumnValues(is_numerical, ft)
    /\ y \in [Rows -> Classes]
    /\ \A r \in Rows \ {0} : KeyLeq(RowKey(X, y, r - 1), RowKey(X, y, r))
    /\ gain_ratio \in BOOLEAN
    /\ examples_idx = <<>>
    /\ features_idx = <<>>
    /\ calc_record = NoRecord
    /\ calc_status = "none"
    /\ prev_record = NoRecord
    /\ prev_status = "none"
    /\ split_records = <<>>
    /\ pc = "constructed"

Calc ==
    /\ pc = "constructed"
    /\ \E e \in ExampleSeqs, f \in FeatureSeqs :
      \E ch \in ChoiceSeqs(e, f) :
        LET out == calc(e, f, ch)
        IN  /\ examples_idx' = e
            /\ features_idx' = f
            /\ calc_record' = out.record
            /\ calc_status' = out.status
            /\ prev_record' = NoRecord
            /\ prev_status' = "none"
            /\ split_records' = <<>>
            /\ pc' = "calc_done"
            /\ UNCHANGED <<X, y, is_numerical, gain_ratio>>

\* calc called a second time with the same examples_idx and features_idx.
CalcAgain ==
    /\ pc = "calc_done"
    /\ \E ch \in ChoiceSeqs(examples_idx, features_idx) :
        LET out == calc(examples_idx, features_idx, ch)
        IN  /\ calc_record' = out.record
            /\ calc_status' = out.status
    /\ prev_record' = calc_record
    /\ prev_status' = calc_status
    /\ pc' = "calc_again_done"
    /\ UNCHANGED <<X, y, is_numerical, gain_ratio, examples_idx, features_idx,
                   split_records>>

\* split(examples_idx, calc_record) on the record calc returned.
Split ==
    /\ pc = "calc_done"
    /\ calc_status = "returned"
    /\ split_records' = split(examples_idx, calc_record)
    /\ pc' = "split_done"
    /\ UNCHANGED <<X, y, is_numerical, gain_ratio, examples_idx, features_idx,
                   calc_record, calc_status, prev_record, prev_status>>

\* The tree builder is done with this node; the Splitter is as constructed.
NextNode ==
    /\ pc # "constructed"
    /\ examples_idx' = <<>>
    /\ features_idx' = <<>>
    /\ calc_record' = NoRecord
    /\ calc_status' = "none"
    /\ prev_record' = NoRecord
    /\ prev_status' = "none"
    /\ split_records' = <<>>
    /\ pc' = "constructed"
    /\ UNCHANGED <<X, y, is_numerical, gain_ratio>>

Next == Calc \/ CalcAgain \/ Split \/ NextNode

Spec == Init /\ [][Next]_vars

\* ================================================================ claims
Called == pc \in {"calc_done", "calc_again_done", "split_done"}
Returned == Called /\ calc_status = "returned"
JustReturned == pc \in {"calc_done", "calc_again_done"} /\ calc_status = "returned"

InBag(bag, r) == \E j \in 1 .. Len(bag) : bag[j] = r

\* The winning feature of the returned record, and its values on the subset.
WinColumn == Column(examples_idx, calc_record.feature_idx)
WinNumerical == Returned /\ is_numerical[calc_record.feature_idx]
JustWinNumerical == JustReturned /\ is_numerical[calc_record.feature_idx]
WinNominal == Returned /\ ~is_numerical[calc_record.feature_idx]
IsConstant(x) == \A a, b \in 1 .. Len(x) : x[a] = x[b]

\* C1: the bags of the branch records split returns are pairwise disjoint and
\* together hold every index of examples_idx exactly as often as examples_idx
\* does: no index is dropped and none appears in two branches.
C1_BranchesPartitionExamples ==
    pc = "split_done" =>
      /\ \A a, b \in 1 .. Len(split_records) :
            a # b => \A r \in Rows : ~(InBag(split_records[a].bag, r)
                                       /\ InBag(split_records[b].bag, r))
      /\ \A r \in Rows :
            Sum([b \in 1 .. Len(split_records) |-> Count(split_records[b].bag, r)])
              = Count(examples_idx, r)

C1_Witness ==
    /\ pc = "split_done"
    /\ Len(examples_idx) = NumExamples
    /\ Cardinality({b \in 1 .. Len(split_records) : split_records[b].size > 0}) >= 2

C3_NominalBranches ==
    (pc = "split_done" /\ WinNominal) =>
      LET codes == encoders[calc_record.feature_idx].encoded_classes_
      IN  /\ Len(split_records) = Len(codes)
          /\ \A c \in 1 .. Len(codes) :
                Cardinality({b \in 1 .. Len(split_records) :
                                split_records[b].value_encoded = codes[c]}) = 1
          /\ \A b \in 1 .. Len(split_records) :
                LET br == split_records[b]
                IN  /\ br.size = Len(br.bag)
                    /\ \A r \in Rows :
                          Count(br.bag, r) =
                            IF X[r][calc_record.feature_idx] = br.value_encoded
                            THEN Count(examples_idx, r) ELSE 0

C3_Witness ==
    /\ pc = "split_done"
    /\ WinNominal
    /\ Len(examples_idx) >= 2
    /\ \E b \in 1 .. Len(split_records) :
          split_records[b].bag = <<>> /\ split_records[b].size = 0
    /\ \E b \in 1 .. Len(split_records) : split_records[b].size >= 2

\* C4: calc called with a non-empty examples_idx and an empty features_idx
\* signals a failure; it returns neither None nor a record without a winning
\* feature index.
C4_EmptyFeaturesFails ==
    (Called /\ examples_idx # <<>> /\ features_idx = <<>>) =>
      /\ calc_status = "AttributeError"
      /\ calc_record = NoRecord

C4_Witness ==
    /\ pc = "calc_done"
    /\ Len(examples_idx) = 2
    /\ features_idx = <<>>
    /\ calc_status = "AttributeError"

\* C5: with gain-ratio mode off, the record calc returns is that of a feature
\* of features_idx whose information value is the minimum over all candidate
\* features, and of the first such feature in features_idx.
C5_MinimumInformationFirst ==
    (JustReturned /\ ~gain_ratio) =>
      \E w \in 1 .. Len(features_idx) :
        /\ features_idx[w] = calc_record.feature_idx
        /\ \A ch \in ChoiceSeqs(examples_idx, features_idx) :
              LET info(j) == Candidate(examples_idx, features_idx, ch, j).info
              IN  /\ calc_record.info = info(w)
                  /\ \A j \in 1 .. Len(features_idx) : ~FGt(info(w), info(j))
                  /\ \A j \in 1 .. (w - 1) : FGt(info(j), info(w))

C5_Witness ==
    /\ pc = "calc_done"
    /\ calc_status = "returned"
    /\ ~gain_ratio
    /\ features_idx = <<1, 0>>
    /\ calc_record.feature_idx = 1
    /\ calc_record.info.k = "fin"
    /\ calc_record.info.v > 0
    /\ \E ch \in ChoiceSeqs(examples_idx, features_idx) :
          Candidate(examples_idx, features_idx, ch, 2).info = calc_record.info

\* C6: for every NUMERICAL decision record calc returns over a non-empty
\* subset, the pivot is a feature value present in the subset and some example
\* of the subset has a feature value strictly greater than the pivot, also
\* when the feature is constant across the subset.
C6_PivotAtValueChange ==
    (WinNumerical /\ calc_record.split_type = NUM /\ examples_idx # <<>>) =>
      /\ \E j \in 1 .. Len(WinColumn) : WinColumn[j] = calc_record.pivot
      /\ \E j \in 1 .. Len(WinColumn) : WinColumn[j] > calc_record.pivot

\* C7: for every decision record calc returns, the information value is >= 0
\* and <= the record's pre-split entropy, the entropy being that of the labels
\* of the whole subset passed to calc.
C7_InformationWithinEntropy ==
    Returned =>
      /\ calc_record.entropy = Fin(_entropy(Labels(examples_idx)))
      /\ ~FLt(calc_record.info, Fin(0))
      /\ ~FGt(calc_record.info, calc_record.entropy)

\* C8: two calls of calc with identical examples_idx and features_idx return
\* records with the same information value, pivot and winning feature index,
\* in both gain-ratio modes.
C8_CalcDeterministic ==
    pc = "calc_again_done" =>
      /\ prev_status = calc_status
      /\ prev_record.info = calc_record.info
      /\ prev_record.pivot = calc_record.pivot
      /\ prev_record.feature_idx = calc_record.feature_idx

\* C9: for a NUMERICAL record over a subset on which the winning feature is
\* not constant, attribute_counts[LESS] is the size of the LESS branch split
\* produces and attribute_counts[GREATER] the size of the GREATER branch.
C9_CountsMatchBranches ==
    (pc = "split_done" /\ WinNumerical /\ ~IsConstant(WinColumn)) =>
      /\ calc_record.attribute_counts[LESS + 1] = split_records[1].size
      /\ calc_record.attribute_counts[GREATER + 1] = split_records[2].size

\* C10: for a numerical feature with at least two distinct values on the
\* subset, the pivot is sorted[i-1] for the smallest position i, among the
\* positions 1 <= i < n with sorted[i-1] != sorted[i], that minimizes
\* i * entropy(sorted_labels[0:i]) + (n - i) * entropy(sorted_labels[i:n]),
\* and the information value is that minimal sum divided by n.
SortedAt(x, i) ==
    CHOOSE v \in {x[j] : j \in 1 .. Len(x)} :
        /\ Cardinality({j \in 1 .. Len(x) : x[j] < v}) < i
        /\ i <= Cardinality({j \in 1 .. Len(x) : x[j] <= v})

LabelsAt(labels, P) ==
    LET pos == SortedSeq(P)
    IN  [k \in 1 .. Len(pos) |-> labels[pos[k]]]

BoundaryCost(x, labels, i) ==
    LET n == Len(x)
        below == {j \in 1 .. n : x[j] <= SortedAt(x, i)}
    IN  i * _entropy(LabelsAt(labels, below))
          + (n - i) * _entropy(LabelsAt(labels, (1 .. n) \ below))

====
